---- MODULE Spec2Model ----
(***************************************************************************)
(* Model of the newspop article pipelines:                                 *)
(*   newsdata_pipeline.py  fetch_articles, normalize                       *)
(*   gdelt_pipeline.py     run_gdeltdoc, add_full_text                     *)
(*   generate_digest.py    generate_digest, load_latest_parquet            *)
(* Each function is a small state machine with its own specification; the  *)
(* variables of the functions a specification does not run stay idle.      *)
(***************************************************************************)
EXTENDS Integers, Sequences, FiniteSets, TLC

VARIABLES
    \* fetch_articles (newsdata_pipeline.py)
    f_pc, max_pages, i, page_token, params_page, articles, f_returned,
    f_log, f_served,
    \* the merge of run_gdeltdoc and load_latest_parquet
    m_pc, dfs, max_articles, deduped, combined, df,
    \* add_full_text (gdelt_pipeline.py)
    e_pc, urls, workers, texts, futures, completed, full_text, writes,
    \* run_gdeltdoc (gdelt_pipeline.py)
    g_pc, keywords, themes, languages, g_max_articles, country_filter_list,
    ascii_keywords, keyword_batches, g_outer, g_inner, g_requests, all_dfs,
    g_result, g_rows, g_failed,
    \* normalize (newsdata_pipeline.py)
    n_pc, raw, n_df,
    \* generate_digest (generate_digest.py)
    d_pc, attempt, submits, processing_status, results, results_read, d_out,
    \* save_results (gdelt_pipeline.py, newsdata_pipeline.py)
    s_pc, s_clock, s_pipeline, s_stem, s_files

fetchVars == <<f_pc, max_pages, i, page_token, params_page, articles,
               f_returned, f_log, f_served>>
mergeVars == <<m_pc, dfs, max_articles, deduped, combined, df>>

enrichVars == <<e_pc, urls, workers, texts, futures, completed, full_text,
                writes>>

gdeltVars == <<g_pc, keywords, themes, languages, g_max_articles,
               country_filter_list, ascii_keywords, keyword_batches, g_outer,
               g_inner, g_requests, all_dfs, g_result, g_rows, g_failed>>

normVars == <<n_pc, raw, n_df>>
digestVars == <<d_pc, attempt, submits, processing_status, results,
                results_read, d_out>>

saveVars == <<s_pc, s_clock, s_pipeline, s_stem, s_files>>

vars == <<fetchVars, mergeVars, enrichVars, gdeltVars, normVars, digestVars,
          saveVars>>

notFetch == <<mergeVars, enrichVars, gdeltVars, normVars, digestVars,
    saveVars>>
notMerge == <<fetchVars, enrichVars, gdeltVars, normVars, digestVars,
    saveVars>>
notEnrich == <<fetchVars, mergeVars, gdeltVars, normVars, digestVars,
    saveVars>>
notGdelt == <<fetchVars, mergeVars, enrichVars, normVars, digestVars,
    saveVars>>
notNorm == <<fetchVars, mergeVars, enrichVars, gdeltVars, digestVars,
    saveVars>>
notDigest == <<fetchVars, mergeVars, enrichVars, gdeltVars, normVars,
    saveVars>>
notSave == <<fetchVars, mergeVars, enrichVars, gdeltVars, normVars,
    digestVars>>

\* Python's None, as a value of string-typed places (tokens, statuses).
None == "None"

(***************************************************************************)
(* Bounds                                                                  *)
(***************************************************************************)
MaxPagesBound == 3
MaxTables == 2
MaxRows == 2
MaxCap == 2
MaxUrls == 3
MaxWorkers == 2
MaxKeywords == 8
MaxCfgKeywords == 4
MaxThemes == 1
MaxLanguages == 2
MaxRaw == 3
MaxResults == 2
MaxRuns == 2
MaxClock == 5
TicksPerSecond == 2

(***************************************************************************)
(* Helpers                                                                 *)
(***************************************************************************)
SeqsUpTo(S, n) == UNION {[1..k -> S] : k \in 0..n}

Min(a, b) == IF a <= b THEN a ELSE b
Max(a, b) == IF a >= b THEN a ELSE b

\* Concatenation of a sequence of sequences, in order.
RECURSIVE Flatten(_)
Flatten(ss) == IF ss = <<>> THEN <<>> ELSE Head(ss) \o Flatten(Tail(ss))

(***************************************************************************)
(* fetch_articles                                                          *)
(***************************************************************************)
\* Continuation tokens the server may hand out; "" is an empty token.
Tokens == {"t1", "t2"}

\* Result lists one page may carry.
PageResults == {<<>>, <<"a1">>, <<"a2", "a1">>}

\* What requests.get can do for one request.
Responses ==
    {[kind |-> k, results |-> <<>>, nextPage |-> None] :
        k \in {"transport_error", "http_429", "http_error", "app_error"}}
    \cup
    {[kind |-> "success", results |-> r, nextPage |-> t] :
        r \in PageResults, t \in Tokens \cup {None, ""}}

\* Python truthiness of a token: None and "" are falsy.
Truthy(tok) == tok # None /\ tok # ""

\* Page parameter sent with the request of this iteration (lines 66-67):
\* params["page"] is overwritten only by a truthy page_token.
PageParam(tok, old) == IF Truthy(tok) THEN tok ELSE old

\* Body of one iteration of `for i in range(max_pages)` after the request
\* has been answered by resp (lines 70-99).  Gives the new articles, token
\* and whether the loop is left by break.
HandleResponse_ClearOnAbort(arts, tok, resp) ==
    CASE resp.kind = "http_429" ->
            [articles |-> arts, page_token |-> tok, brk |-> FALSE]
      [] resp.kind \in {"transport_error", "http_error", "app_error"} ->
            [articles |-> <<>>, page_token |-> tok, brk |-> TRUE]
      [] OTHER ->
            [articles |-> arts \o resp.results, page_token |-> resp.nextPage,
             brk |-> ~Truthy(resp.nextPage)]

HandleResponse_NoStopOnLastPage(arts, tok, resp) ==
    CASE resp.kind = "http_429" ->
            [articles |-> arts, page_token |-> tok, brk |-> FALSE]
      [] resp.kind \in {"transport_error", "http_error", "app_error"} ->
            [articles |-> arts, page_token |-> tok, brk |-> TRUE]
      [] OTHER ->
            [articles |-> arts \o resp.results, page_token |-> resp.nextPage,
             brk |-> FALSE]

HandleResponse(arts, tok, resp) ==
    CASE resp.kind = "transport_error" ->            \* lines 72-74
            [articles |-> arts, page_token |-> tok, brk |-> TRUE]
      [] resp.kind = "http_429" ->                   \* lines 76-79: continue
            [articles |-> arts, page_token |-> tok, brk |-> FALSE]
      [] resp.kind = "http_error" ->                 \* lines 81-83
            [articles |-> arts, page_token |-> tok, brk |-> TRUE]
      [] resp.kind = "app_error" ->                  \* lines 87-89
            [articles |-> arts, page_token |-> tok, brk |-> TRUE]
      [] OTHER ->                                    \* lines 91-97
            [articles |-> arts \o resp.results, page_token |-> resp.nextPage,
             brk |-> ~Truthy(resp.nextPage)]

FetchIdle ==
    /\ f_pc = "idle"
    /\ max_pages = 0
    /\ i = 0
    /\ page_token = None
    /\ params_page = None
    /\ articles = <<>>
    /\ f_returned = <<>>
    /\ f_log = <<>>
    /\ f_served = <<>>

FetchStart ==
    /\ f_pc = "loop"
    /\ max_pages \in 1..MaxPagesBound
    /\ i = 0
    /\ page_token = None
    /\ params_page = None
    /\ articles = <<>>
    /\ f_returned = <<>>
    /\ f_log = <<>>
    /\ f_served = <<>>

\* One iteration of the page loop: the request and the handling of its answer.
FetchPage(resp) ==
    /\ f_pc = "loop"
    /\ i < max_pages
    /\ LET p == PageParam(page_token, params_page)
           h == HandleResponse(articles, page_token, resp)
       IN /\ params_page' = p
          /\ f_log' = Append(f_log, [page |-> p, kind |-> resp.kind,
                                  nextPage |-> resp.nextPage])
          /\ f_served' = IF resp.kind = "success"
                         THEN Append(f_served, resp.results) ELSE f_served
          /\ articles' = h.articles
          /\ page_token' = h.page_token
          /\ i' = i + 1
          /\ f_pc' = IF h.brk THEN "break" ELSE "loop"
    /\ UNCHANGED <<max_pages, f_returned>>
    /\ UNCHANGED notFetch

\* The loop is over (range exhausted or break): return articles (line 101).
FetchReturn ==
    /\ \/ f_pc = "loop" /\ i >= max_pages
       \/ f_pc = "break"
    /\ f_returned' = articles
    /\ f_pc' = "returned"
    /\ UNCHANGED <<max_pages, i, page_token, params_page, articles, f_log,
                   f_served>>
    /\ UNCHANGED notFetch

NextFetch ==
    \/ \E resp \in Responses : FetchPage(resp)
    \/ FetchReturn

(***************************************************************************)
(* Merge: concat, drop_duplicates(subset="url"), head                      *)
(* A table is the sequence of its rows; a row carries its url and the      *)
(* place it came from (table number, row number), which stands for the     *)
(* rest of its cells.                                                      *)
(***************************************************************************)
Urls == {"", "u1", "u2"}

\* DataFrame.drop_duplicates(subset="url"), keep="first": a row is dropped
\* when an earlier row has the same url.
RECURSIVE DropDuplicatesFrom(_, _)
DropDuplicatesFrom(rows, seen) ==
    IF rows = <<>> THEN <<>>
    ELSE IF Head(rows).url \in seen
         THEN DropDuplicatesFrom(Tail(rows), seen)
         ELSE <<Head(rows)>>
              \o DropDuplicatesFrom(Tail(rows), seen \cup {Head(rows).url})

RECURSIVE DropDuplicates_KeepLast(_)
DropDuplicates_KeepLast(rows) ==
    IF rows = <<>> THEN <<>>
    ELSE IF \E k \in 2..Len(rows) : rows[k].url = Head(rows).url
         THEN DropDuplicates_KeepLast(Tail(rows))
         ELSE <<Head(rows)>> \o DropDuplicates_KeepLast(Tail(rows))

DropDuplicates(rows) == DropDuplicatesFrom(rows, {})

\* DataFrame.head(n): the first n rows, or all but the last -n for n < 0.
HeadRows(rows, n) ==
    IF n >= 0 THEN SubSeq(rows, 1, Min(n, Len(rows)))
    ELSE SubSeq(rows, 1, Max(Len(rows) + n, 0))

\* run_gdeltdoc lines 128-133.
Combine_HeadFirst(tables, n) == DropDuplicates(HeadRows(Flatten(tables), n))

Combine(tables, n) == HeadRows(DropDuplicates(Flatten(tables)), n)

\* Rows of table t built from a sequence of urls.
TableOf(us, t) == [r \in 1..Len(us) |-> [url |-> us[r], origin |-> <<t, r>>]]

MergeIdle ==
    /\ m_pc = "idle"
    /\ dfs = <<>>
    /\ max_articles = 0
    /\ deduped = <<>>
    /\ combined = <<>>
    /\ df = <<>>

MergeStart ==
    /\ m_pc = "input"
    /\ \E uss \in SeqsUpTo(SeqsUpTo(Urls, MaxRows), MaxTables) :
          dfs = [t \in 1..Len(uss) |-> TableOf(uss[t], t)]
    /\ max_articles \in 0..MaxCap
    /\ deduped = <<>>
    /\ combined = <<>>
    /\ df = <<>>

\* run_gdeltdoc lines 123-133 on the accumulated tables: all_dfs holds only
\* non-empty tables, and an empty all_dfs gives an empty table.
GdeltCombine ==
    /\ m_pc = "input"
    /\ \A t \in DOMAIN dfs : dfs[t] # <<>>
    /\ deduped' = DropDuplicates(Flatten(dfs))
    /\ combined' = IF dfs = <<>> THEN <<>> ELSE Combine(dfs, max_articles)
    /\ m_pc' = "gdelt_done"
    /\ UNCHANGED <<dfs, max_articles, df>>
    /\ UNCHANGED notMerge

\* load_latest_parquet line 143: dfs[1] is the latest gdelt file, the others
\* are today's newsdata files.
LoadLatestParquet ==
    /\ m_pc = "input"
    /\ dfs # <<>>
    /\ deduped' = DropDuplicates(Flatten(dfs))
    /\ df' = DropDuplicates(Flatten(dfs))
    /\ m_pc' = "digest_done"
    /\ UNCHANGED <<dfs, max_articles, combined>>
    /\ UNCHANGED notMerge

NextMerge ==
    \/ GdeltCombine
    \/ LoadLatestParquet

(***************************************************************************)
(* add_full_text: one fetch_full_text task per row on a thread pool        *)
(***************************************************************************)
\* Python's None as a cell value, and the text extracted from a url.
Nothing == [tag |-> "None"]
Text(u) == [tag |-> "text", url |-> u]

\* What can happen inside fetch_full_text.
FetchOutcomes ==
    {"download_none", "fetch_raises", "extract_raises", "extract_none", "text"}

\* An exception that leaves fetch_full_text, stored in the future.
Raised == [tag |-> "exception"]

\* fetch_full_text lines 156-170: None when the download gives nothing or
\* anything raises, otherwise what trafilatura.extract returns.
FetchFullText_NoCatch(u, outcome) ==
    CASE outcome = "download_none" -> Nothing
      [] outcome = "fetch_raises" -> Raised
      [] outcome = "extract_raises" -> Raised
      [] outcome = "extract_none" -> Nothing
      [] OTHER -> Text(u)

FetchFullText(u, outcome) ==
    CASE outcome = "download_none" -> Nothing          \* lines 160-161
      [] outcome = "fetch_raises" -> Nothing           \* lines 168-170
      [] outcome = "extract_raises" -> Nothing         \* lines 168-170
      [] outcome = "extract_none" -> Nothing           \* line 162
      [] OTHER -> Text(u)                              \* line 162

\* Slot of texts written for a completed future (line 183); ncollected is
\* the number of futures as_completed has yielded before it.
SlotOf_CompletionOrder(fut, ncollected) == ncollected + 1

SlotOf_FirstSlot(fut, ncollected) == 1

SlotOf(fut, ncollected) == fut.idx

Running == {k \in DOMAIN futures : futures[k].status = "running"}
Pending == {k \in DOMAIN futures : futures[k].status = "pending"}

EnrichIdle ==
    /\ e_pc = "idle"
    /\ urls = <<>>
    /\ workers = 0
    /\ texts = <<>>
    /\ futures = <<>>
    /\ completed = <<>>
    /\ full_text = <<>>
    /\ writes = <<>>

\* Lines 175-176.
EnrichStart ==
    /\ e_pc = "submitting"
    /\ urls \in SeqsUpTo({"u1", "u2"}, MaxUrls)
    /\ workers \in 1..MaxWorkers
    /\ texts = [k \in 1..Len(urls) |-> Nothing]
    /\ futures = <<>>
    /\ completed = <<>>
    /\ full_text = <<>>
    /\ writes = [k \in 1..Len(urls) |-> 0]

\* Line 180: pool.submit(fetch_full_text, url) for the next row, recorded in
\* future_to_idx with the row's position.
Submit ==
    /\ e_pc = "submitting"
    /\ Len(futures) < Len(urls)
    /\ LET k == Len(futures) + 1
       IN futures' = Append(futures, [url |-> urls[k], idx |-> k,
                                      status |-> "pending", calls |-> 0,
                                      outcome |-> None,
                                      result |-> Nothing])
    /\ UNCHANGED <<e_pc, urls, workers, texts, completed, full_text, writes>>
    /\ UNCHANGED notEnrich

\* Every row is submitted: the main thread enters as_completed (line 182).
SubmitDone ==
    /\ e_pc = "submitting"
    /\ Len(futures) = Len(urls)
    /\ e_pc' = "collecting"
    /\ UNCHANGED <<urls, workers, texts, futures, completed, full_text,
                   writes>>
    /\ UNCHANGED notEnrich

\* A free worker of the pool takes the oldest queued task.
WorkerStart(k) ==
    /\ e_pc \in {"submitting", "collecting"}
    /\ k \in Pending
    /\ \A j \in Pending : k <= j
    /\ Cardinality(Running) < workers
    /\ futures' = [futures EXCEPT ![k].status = "running",
                                  ![k].calls = @ + 1]
    /\ UNCHANGED <<e_pc, urls, workers, texts, completed, full_text, writes>>
    /\ UNCHANGED notEnrich

\* A running fetch_full_text call returns.
WorkerFinish(k, outcome) ==
    /\ e_pc \in {"submitting", "collecting"}
    /\ k \in Running
    /\ futures' = [futures EXCEPT
                      ![k].status = "done",
                      ![k].outcome = outcome,
                      ![k].result = FetchFullText(futures[k].url, outcome)]
    /\ UNCHANGED <<e_pc, urls, workers, texts, completed, full_text, writes>>
    /\ UNCHANGED notEnrich

\* Lines 182-183: as_completed yields a finished future not yet yielded and
\* its result is stored in texts; future.result() raises again what the
\* task raised, which leaves add_full_text.
Collect(k) ==
    /\ e_pc = "collecting"
    /\ k \in DOMAIN futures
    /\ futures[k].status = "done"
    /\ \A n \in DOMAIN completed : completed[n] # k
    /\ completed' = Append(completed, k)
    /\ IF futures[k].result = Raised
       THEN /\ e_pc' = "raised"
            /\ UNCHANGED <<texts, writes>>
       ELSE LET slot == SlotOf(futures[k], Len(completed))
            IN /\ texts' = [texts EXCEPT ![slot] = futures[k].result]
               /\ writes' = [writes EXCEPT ![slot] = @ + 1]
               /\ e_pc' = e_pc
    /\ UNCHANGED <<urls, workers, futures, full_text>>
    /\ UNCHANGED notEnrich

\* Lines 186-189: every future was yielded; the column is set from texts.
EnrichReturn ==
    /\ e_pc = "collecting"
    /\ Len(completed) = Len(futures)
    /\ full_text' = texts
    /\ e_pc' = "returned"
    /\ UNCHANGED <<urls, workers, texts, futures, completed, writes>>
    /\ UNCHANGED notEnrich

NextEnrich ==
    \/ Submit
    \/ SubmitDone
    \/ \E k \in DOMAIN futures : WorkerStart(k)
    \/ \E k \in DOMAIN futures, o \in FetchOutcomes : WorkerFinish(k, o)
    \/ \E k \in DOMAIN futures : Collect(k)
    \/ EnrichReturn

(***************************************************************************)
(* run_gdeltdoc                                                            *)
(* A DataFrame is [columns, rows]; a keyword is the sequence of its code   *)
(* points.                                                                 *)
(***************************************************************************)
\* pd.DataFrame()
EmptyFrame == [columns |-> {}, rows |-> <<>>]

\* DataFrame.empty
IsEmpty(frame) == frame.columns = {} \/ frame.rows = <<>>

\* Columns of an article_search table that the pipeline refers to
\* (lines 130, 136-141, 231).
SearchColumns ==
    {"url", "title", "seendate", "domain", "language", "sourcecountry"}

\* The canonical columns of an article row.
CanonicalColumns ==
    {"date_str", "source", "url", "themes", "locations", "persons",
     "organizations", "tone", "translation_info", "full_text"}

\* Lines 65-68.
LANGUAGE_TO_COUNTRY ==
    [l \in {"Italian", "German", "French", "Spanish", "Portuguese"} |->
        CASE l = "Italian" -> "IT"
          [] l = "German" -> "GM"
          [] l = "French" -> "FR"
          [] l = "Spanish" -> "SP"
          [] OTHER -> "PO"]

\* Line 95.
BATCH == 3

\* str.isascii()
IsAscii(k) == \A n \in DOMAIN k : k[n] < 128

\* Line 69.
RECURSIVE CountryList(_)
CountryList(ls) ==
    IF ls = <<>> THEN <<>>
    ELSE IF Head(ls) \in DOMAIN LANGUAGE_TO_COUNTRY
         THEN <<LANGUAGE_TO_COUNTRY[Head(ls)]>> \o CountryList(Tail(ls))
         ELSE CountryList(Tail(ls))

\* Line 70.
CountryFilterList_NoFallback(country_list) == country_list

CountryFilterList(country_list) ==
    IF country_list # <<>> THEN country_list ELSE <<None>>

\* Line 73.
RECURSIVE AsciiKeywords(_)
AsciiKeywords(ks) ==
    IF ks = <<>> THEN <<>>
    ELSE IF IsAscii(Head(ks))
         THEN <<Head(ks)>> \o AsciiKeywords(Tail(ks))
         ELSE AsciiKeywords(Tail(ks))

\* Line 96: the slices ks[i:i+BATCH] for i in range(0, len(ks), BATCH).
RECURSIVE KeywordBatches_DropPartial(_)
KeywordBatches_DropPartial(ks) ==
    IF Len(ks) < BATCH THEN <<>>
    ELSE <<SubSeq(ks, 1, BATCH)>>
         \o KeywordBatches_DropPartial(SubSeq(ks, BATCH + 1, Len(ks)))

RECURSIVE KeywordBatches(_)
KeywordBatches(ks) ==
    IF ks = <<>> THEN <<>>
    ELSE <<SubSeq(ks, 1, Min(BATCH, Len(ks)))>>
         \o KeywordBatches(SubSeq(ks, Min(BATCH, Len(ks)) + 1, Len(ks)))

\* Line 98: the quoted phrases of a batch joined by " OR ".
RECURSIVE OrJoin(_)
OrJoin(batch) ==
    IF batch = <<>> THEN <<>>
    ELSE IF Len(batch) = 1 THEN <<[quoted |-> Head(batch)]>>
    ELSE <<[quoted |-> Head(batch)], [sep |-> " OR "]>> \o OrJoin(Tail(batch))

\* Lines 100-102 and 113-115: the filter arguments of one request; the
\* country is given only when it is truthy.
Kwargs(kind, query, country) ==
    IF country # None
    THEN [kind |-> kind, query |-> query, country |-> country]
    ELSE [kind |-> kind, query |-> query]

\* What gd.article_search can do for one request.
SearchOutcomes ==
    {[kind |-> k, urls |-> <<>>] :
        k \in {"RecursionError", "Exception", "not_dataframe"}}
    \cup {[kind |-> "dataframe", urls |-> us] : us \in {<<>>, <<"u1", "u2">>}}

\* The outcomes that _search logs and turns into an empty frame.
FailureKinds == {"RecursionError", "Exception", "not_dataframe"}

\* The rows the search API handed back for the request numbered n.
ReturnedRows(outcome, n) ==
    IF outcome.kind = "dataframe"
    THEN {TableOf(outcome.urls, n)[r] : r \in 1..Len(outcome.urls)}
    ELSE {}

\* _search, lines 80-92: the table of the request numbered n, or an empty
\* frame when the call raises or gives no DataFrame.
Search(outcome, n) ==
    IF outcome.kind = "dataframe"
    THEN [columns |-> SearchColumns, rows |-> TableOf(outcome.urls, n)]
    ELSE EmptyFrame

\* Lines 105-107 and 118-120.
Accumulate_ResetOnEmpty(dfs_, frame) ==
    IF IsEmpty(frame) THEN <<>> ELSE Append(dfs_, frame)

Accumulate(dfs_, frame) == IF IsEmpty(frame) THEN dfs_ ELSE Append(dfs_, frame)

\* Where the two nested loops (lines 97-121) stand: the first iteration, and
\* the iteration after (phase, outer, inner).
ThemesFirst(nt, nc) ==
    IF nt > 0 /\ nc > 0 THEN [pc |-> "themes", outer |-> 1, inner |-> 1]
    ELSE [pc |-> "combine", outer |-> 0, inner |-> 0]

KeywordsFirst(nb, nt, nc) ==
    IF nb > 0 /\ nc > 0 THEN [pc |-> "keywords", outer |-> 1, inner |-> 1]
    ELSE ThemesFirst(nt, nc)

AfterKeyword(b, c, nb, nt, nc) ==
    IF c < nc THEN [pc |-> "keywords", outer |-> b, inner |-> c + 1]
    ELSE IF b < nb THEN [pc |-> "keywords", outer |-> b + 1, inner |-> 1]
    ELSE ThemesFirst(nt, nc)

AfterTheme(t, c, nt, nc) ==
    IF c < nc THEN [pc |-> "themes", outer |-> t, inner |-> c + 1]
    ELSE IF t < nt THEN [pc |-> "themes", outer |-> t + 1, inner |-> 1]
    ELSE [pc |-> "combine", outer |-> 0, inner |-> 0]

\* Lines 136-141.
RenameColumn(c) ==
    CASE c = "seendate" -> "date_str"
      [] c = "domain" -> "source"
      [] c = "sourcecountry" -> "country"
      [] OTHER -> c

\* Lines 123-149: the returned table.
GdeltResult(frames, cap) ==
    IF frames = <<>> THEN EmptyFrame
    ELSE [columns |->
             {RenameColumn(c) : c \in UNION {frames[t].columns :
                                                t \in DOMAIN frames}}
             \cup {"themes", "locations", "persons", "organizations", "tone"},
          rows |-> Combine([t \in DOMAIN frames |-> frames[t].rows], cap)]

GdeltIdle ==
    /\ g_pc = "idle"
    /\ keywords = <<>>
    /\ themes = <<>>
    /\ languages = <<>>
    /\ g_max_articles = 0
    /\ country_filter_list = <<>>
    /\ ascii_keywords = <<>>
    /\ keyword_batches = <<>>
    /\ g_outer = 0
    /\ g_inner = 0
    /\ g_requests = <<>>
    /\ all_dfs = <<>>
    /\ g_result = EmptyFrame
    /\ g_rows = {}
    /\ g_failed = FALSE

GdeltLocals ==
    /\ g_pc = "start"
    /\ country_filter_list = <<>>
    /\ ascii_keywords = <<>>
    /\ keyword_batches = <<>>
    /\ g_outer = 0
    /\ g_inner = 0
    /\ g_requests = <<>>
    /\ all_dfs = <<>>
    /\ g_result = EmptyFrame
    /\ g_rows = {}
    /\ g_failed = FALSE

\* Keyword lists of a configuration: up to MaxCfgKeywords ASCII keywords,
\* or a non-ASCII keyword before an ASCII one.
ConfigKeywords ==
    SeqsUpTo({<<97>>}, MaxCfgKeywords) \cup {<< <<233>>, <<97>> >>}

\* A configuration (lines 56-61).
GdeltStart ==
    /\ keywords \in ConfigKeywords
    /\ themes \in SeqsUpTo({"FERTILITY"}, MaxThemes)
    /\ languages \in SeqsUpTo({"Italian", "German", "Klingon"}, MaxLanguages)
    /\ g_max_articles \in {0, 1, MaxCap}
    /\ GdeltLocals

\* A configuration with keywords only, for the batching.
BatchStart ==
    /\ keywords \in SeqsUpTo({<<97>>, <<98, 99>>, <<233>>}, MaxKeywords)
    /\ themes = <<>>
    /\ languages = <<>>
    /\ g_max_articles = MaxCap
    /\ GdeltLocals

\* Lines 63-96: the country filters, the ASCII keywords and their batches.
GdeltPrepare ==
    /\ g_pc = "start"
    /\ LET cfl == CountryFilterList(CountryList(languages))
           kb == KeywordBatches(AsciiKeywords(keywords))
           pos == KeywordsFirst(Len(kb), Len(themes), Len(cfl))
       IN /\ country_filter_list' = cfl
          /\ ascii_keywords' = AsciiKeywords(keywords)
          /\ keyword_batches' = kb
          /\ g_pc' = pos.pc
          /\ g_outer' = pos.outer
          /\ g_inner' = pos.inner
    /\ UNCHANGED <<keywords, themes, languages, g_max_articles, g_requests,
                   all_dfs, g_result, g_rows, g_failed>>
    /\ UNCHANGED notGdelt

\* Lines 99-108: one keyword request.
KeywordQuery(outcome) ==
    /\ g_pc = "keywords"
    /\ LET n == Len(g_requests) + 1
           pos == AfterKeyword(g_outer, g_inner, Len(keyword_batches),
                               Len(themes), Len(country_filter_list))
       IN /\ g_requests' = Append(g_requests,
                 [outer |-> g_outer, inner |-> g_inner,
                  kwargs |-> Kwargs("keyword",
                                    OrJoin(keyword_batches[g_outer]),
                                    country_filter_list[g_inner])])
          /\ all_dfs' = Accumulate(all_dfs, Search(outcome, n))
          /\ g_rows' = g_rows \cup ReturnedRows(outcome, n)
          /\ g_failed' = (g_failed \/ outcome.kind \in FailureKinds)
          /\ g_pc' = pos.pc
          /\ g_outer' = pos.outer
          /\ g_inner' = pos.inner
    /\ UNCHANGED <<keywords, themes, languages, g_max_articles,
                   country_filter_list, ascii_keywords, keyword_batches,
                   g_result>>
    /\ UNCHANGED notGdelt

\* Lines 112-121: one theme request.
ThemeQuery(outcome) ==
    /\ g_pc = "themes"
    /\ LET n == Len(g_requests) + 1
           pos == AfterTheme(g_outer, g_inner, Len(themes),
                             Len(country_filter_list))
       IN /\ g_requests' = Append(g_requests,
                 [outer |-> g_outer, inner |-> g_inner,
                  kwargs |-> Kwargs("theme", themes[g_outer],
                                    country_filter_list[g_inner])])
          /\ all_dfs' = Accumulate(all_dfs, Search(outcome, n))
          /\ g_rows' = g_rows \cup ReturnedRows(outcome, n)
          /\ g_failed' = (g_failed \/ outcome.kind \in FailureKinds)
          /\ g_pc' = pos.pc
          /\ g_outer' = pos.outer
          /\ g_inner' = pos.inner
    /\ UNCHANGED <<keywords, themes, languages, g_max_articles,
                   country_filter_list, ascii_keywords, keyword_batches,
                   g_result>>
    /\ UNCHANGED notGdelt

\* Lines 123-149.
GdeltReturn ==
    /\ g_pc = "combine"
    /\ g_result' = GdeltResult(all_dfs, g_max_articles)
    /\ g_pc' = "returned"
    /\ UNCHANGED <<keywords, themes, languages, g_max_articles,
                   country_filter_list, ascii_keywords, keyword_batches,
                   g_outer, g_inner, g_requests, all_dfs, g_rows, g_failed>>
    /\ UNCHANGED notGdelt

NextGdelt ==
    \/ GdeltPrepare
    \/ \E o \in SearchOutcomes : KeywordQuery(o)
    \/ \E o \in SearchOutcomes : ThemeQuery(o)
    \/ GdeltReturn

NextBatch == GdeltPrepare

(***************************************************************************)
(* normalize                                                               *)
(* A raw item is the value of its "link" key (None when absent or null).   *)
(***************************************************************************)
Links == {None, "", "u1", "u2"}

\* Line 121: a.get("link") or "".
UrlOf(link) == IF Truthy(link) THEN link ELSE ""

\* Lines 110-129: one row per raw item, in order.
RowsOf(raw_) ==
    [k \in 1..Len(raw_) |-> [url |-> UrlOf(raw_[k]), origin |-> <<1, k>>]]

\* Line 132: df[df["url"] != ""].
NonEmptyUrl(row) == row.url # ""

\* Lines 131-133, for a non-empty list of rows.
NormalizeRows_KeepEmptyUrl(rows) == DropDuplicates(rows)

NormalizeRows(rows) == DropDuplicates(SelectSeq(rows, NonEmptyUrl))

\* Lines 108-133.  pd.DataFrame([]) has no column, so df["url"] raises
\* KeyError for an empty raw list.
Normalize(raw_) ==
    IF raw_ = <<>>
    THEN [pc |-> "raised", frame |-> EmptyFrame]
    ELSE [pc |-> "returned",
          frame |-> [columns |-> CanonicalColumns,
                     rows |-> NormalizeRows(RowsOf(raw_))]]

NormIdle ==
    /\ n_pc = "idle"
    /\ raw = <<>>
    /\ n_df = EmptyFrame

NormStart ==
    /\ n_pc = "input"
    /\ raw \in SeqsUpTo(Links, MaxRaw)
    /\ n_df = EmptyFrame

NormalizeCall ==
    /\ n_pc = "input"
    /\ n_pc' = Normalize(raw).pc
    /\ n_df' = Normalize(raw).frame
    /\ UNCHANGED raw
    /\ UNCHANGED notNorm

NextNorm == NormalizeCall

(***************************************************************************)
(* generate_digest                                                         *)
(***************************************************************************)
\* Line 101.
MaxPolls == 40

\* batch.processing_status values.
Statuses == {"in_progress", "canceling", "ended"}

\* Entries of client.messages.batches.results.
ResultEntries ==
    [custom_id : {"weekly-digest", "other"},
     type : {"succeeded", "errored", "canceled", "expired"}]

\* Lines 101-108: where the poll loop goes after poll number n gave status.
AfterPoll_TimeoutFirst(n, status) ==
    IF n >= MaxPolls THEN "TimeoutError"
    ELSE IF status = "ended" THEN "results"
    ELSE "polling"

AfterPoll(n, status) ==
    IF status = "ended" THEN "results"
    ELSE IF n >= MaxPolls THEN "TimeoutError"
    ELSE "polling"

\* Lines 111-117: the first entry for "weekly-digest" decides.
RECURSIVE ReadResult(_, _)
ReadResult(res, n) ==
    IF n > Len(res) THEN [kind |-> "RuntimeError", entry |-> 0]
    ELSE IF res[n].custom_id = "weekly-digest"
         THEN IF res[n].type = "succeeded"
              THEN [kind |-> "text", entry |-> n]
              ELSE [kind |-> "RuntimeError", entry |-> n]
         ELSE ReadResult(res, n + 1)

DigestIdle ==
    /\ d_pc = "idle"
    /\ attempt = 0
    /\ submits = 0
    /\ processing_status = None
    /\ results = <<>>
    /\ results_read = FALSE
    /\ d_out = [kind |-> "none", entry |-> 0]

DigestStart ==
    /\ d_pc = "start"
    /\ attempt = 0
    /\ submits = 0
    /\ processing_status = None
    /\ results = <<>>
    /\ results_read = FALSE
    /\ d_out = [kind |-> "none", entry |-> 0]

\* Lines 87-98.
SubmitBatch ==
    /\ d_pc = "start"
    /\ submits' = submits + 1
    /\ processing_status' = "in_progress"
    /\ d_pc' = "polling"
    /\ UNCHANGED <<attempt, results, results_read, d_out>>
    /\ UNCHANGED notDigest

\* Lines 101-108: one sleep and retrieve; the loop's else clause raises
\* after the last retrieve.
Poll(status) ==
    /\ d_pc = "polling"
    /\ attempt < MaxPolls
    /\ attempt' = attempt + 1
    /\ processing_status' = status
    /\ LET to == AfterPoll(attempt + 1, status)
       IN IF to = "TimeoutError"
          THEN /\ d_pc' = "raised"
               /\ d_out' = [kind |-> "TimeoutError", entry |-> 0]
          ELSE /\ d_pc' = to
               /\ d_out' = d_out
    /\ UNCHANGED <<submits, results, results_read>>
    /\ UNCHANGED notDigest

\* Lines 111-117.
ReadResults(res) ==
    /\ d_pc = "results"
    /\ results' = res
    /\ results_read' = TRUE
    /\ d_out' = ReadResult(res, 1)
    /\ d_pc' = IF ReadResult(res, 1).kind = "text" THEN "returned"
               ELSE "raised"
    /\ UNCHANGED <<attempt, submits, processing_status>>
    /\ UNCHANGED notDigest

NextDigest ==
    \/ SubmitBatch
    \/ \E st \in Statuses : Poll(st)
    \/ \E res \in SeqsUpTo(ResultEntries, MaxResults) : ReadResults(res)

(***************************************************************************)
(* save_results: two files named by pipeline, tag and the second of the    *)
(* call.  The clock counts ticks of 1/TicksPerSecond second.               *)
(***************************************************************************)
Runs == 1..MaxRuns

\* datetime.now().strftime("%Y%m%d_%H%M%S"): the time cut to whole seconds.
Strftime(t) == t \div TicksPerSecond

\* gdelt_pipeline.py line 200 and newsdata_pipeline.py line 143.
Stem(pipeline, tag, ts) ==
    IF pipeline = "gdelt"
    THEN IF tag # "" THEN <<"gdelt", tag, ts>> ELSE <<"gdelt", ts>>
    ELSE <<"newsdata", ts>>

\* The two paths of a stem (lines 201-202, 144-145).
PathsOf(stem) == {[stem |-> stem, ext |-> "csv"],
                  [stem |-> stem, ext |-> "parquet"]}

\* A write creates the file or replaces the one of that name.
WriteFiles(files, paths, run) ==
    {f \in files : f.path \notin paths}
        \cup {[path |-> q, writer |-> run] : q \in paths}

SaveIdle ==
    /\ s_pc = "idle"
    /\ s_clock = 0
    /\ s_pipeline = <<>>
    /\ s_stem = <<>>
    /\ s_files = {}

\* Runs of the pipelines that share one output directory.
SaveStart ==
    /\ s_pc = "running"
    /\ s_clock = 0
    /\ s_pipeline \in [Runs -> {"gdelt", "newsdata"}]
    /\ s_stem = [r \in Runs |-> <<>>]
    /\ s_files = {}

\* Time passes.
Tick ==
    /\ s_pc = "running"
    /\ s_clock < MaxClock
    /\ s_clock' = s_clock + 1
    /\ UNCHANGED <<s_pc, s_pipeline, s_stem, s_files>>
    /\ UNCHANGED notSave

\* save_results of run r (gdelt lines 196-206, newsdata lines 140-149).
SaveResults(r, tag) ==
    /\ s_pc = "running"
    /\ s_stem[r] = <<>>
    /\ s_pipeline[r] = "newsdata" => tag = ""
    /\ LET stem == Stem(s_pipeline[r], tag, Strftime(s_clock))
       IN /\ s_stem' = [s_stem EXCEPT ![r] = stem]
          /\ s_files' = WriteFiles(s_files, PathsOf(stem), r)
    /\ UNCHANGED <<s_pc, s_clock, s_pipeline>>
    /\ UNCHANGED notSave

NextSave ==
    \/ Tick
    \/ \E r \in Runs, tag \in {"", "daily"} : SaveResults(r, tag)

(***************************************************************************)
(* Specifications                                                          *)
(***************************************************************************)
FetchInit ==
    FetchStart /\ MergeIdle /\ EnrichIdle /\ GdeltIdle /\ NormIdle /\ DigestIdle
    /\ SaveIdle
MergeInit ==
    MergeStart /\ FetchIdle /\ EnrichIdle /\ GdeltIdle /\ NormIdle /\ DigestIdle
    /\ SaveIdle
EnrichInit ==
    EnrichStart /\ FetchIdle /\ MergeIdle /\ GdeltIdle /\ NormIdle /\ DigestIdle
    /\ SaveIdle
GdeltInit ==
    GdeltStart /\ FetchIdle /\ MergeIdle /\ EnrichIdle /\ NormIdle /\ DigestIdle
    /\ SaveIdle
BatchInit ==
    BatchStart /\ FetchIdle /\ MergeIdle /\ EnrichIdle /\ NormIdle /\ DigestIdle
    /\ SaveIdle
NormInit ==
    NormStart /\ FetchIdle /\ MergeIdle /\ EnrichIdle /\ GdeltIdle /\ DigestIdle
    /\ SaveIdle
DigestInit ==
    DigestStart /\ FetchIdle /\ MergeIdle /\ EnrichIdle /\ GdeltIdle /\ NormIdle
    /\ SaveIdle

SaveInit ==
    SaveStart /\ FetchIdle /\ MergeIdle /\ EnrichIdle /\ GdeltIdle /\ NormIdle
    /\ DigestIdle

SpecFetch == FetchInit /\ [][NextFetch]_vars
SpecMerge == MergeInit /\ [][NextMerge]_vars
SpecEnrich == EnrichInit /\ [][NextEnrich]_vars
SpecGdelt == GdeltInit /\ [][NextGdelt]_vars
SpecBatch == BatchInit /\ [][NextBatch]_vars
SpecNorm == NormInit /\ [][NextNorm]_vars
SpecDigest == DigestInit /\ [][NextDigest]_vars
SpecSave == SaveInit /\ [][NextSave]_vars

\* fetch_articles is sequential code whose requests time out and whose
\* sleeps end: it keeps taking steps until it returns.
SpecFetchLive == FetchInit /\ [][NextFetch]_vars /\ WF_vars(NextFetch)

(***************************************************************************)
(* Claims about fetch_articles                                             *)
(***************************************************************************)
AbortKinds == {"transport_error", "http_error", "app_error"}

\* Every answer of the run was a 429 or a success carrying a continuation
\* token.
OnlyRateLimitsAndPages ==
    \A n \in DOMAIN f_log :
        \/ f_log[n].kind = "http_429"
        \/ f_log[n].kind = "success" /\ Truthy(f_log[n].nextPage)

\* C1: a 429 answer does not consume a page-cap slot: when the server only
\* answers 429 or success-with-token, the returned run has collected
\* max_pages successful pages.
C1_RateLimitKeepsPageCap ==
    (f_pc = "returned" /\ OnlyRateLimitsAndPages)
        => Len(f_served) = max_pages

\* C7: when pagination aborts (transport failure, non-429 HTTP error,
\* application-level error) the abort is the last request of the run and the
\* function returns exactly the articles of the pages collected before it,
\* in order.
C7_AbortReturnsCollected ==
    /\ \A n \in DOMAIN f_log :
          f_log[n].kind \in AbortKinds
              => n = Len(f_log) /\ f_pc \in {"break", "returned"}
    /\ (f_pc = "returned" /\ f_log # <<>>
           /\ f_log[Len(f_log)].kind \in AbortKinds)
          => f_returned = Flatten(f_served)

\* An abort on a later page, after at least one non-empty page was collected.
C7_Witness ==
    /\ f_pc = "returned"
    /\ Len(f_log) >= 2
    /\ f_log[Len(f_log)].kind \in AbortKinds
    /\ f_served # <<>>
    /\ f_returned # <<>>

\* No request follows a successful page without continuation token.
LastPageEndsRun ==
    \A n \in DOMAIN f_log :
        (f_log[n].kind = "success" /\ ~Truthy(f_log[n].nextPage))
            => n = Len(f_log)

\* C16: fetch_articles returns in the end, never issues more than max_pages
\* requests, whatever the answers (also 429 to every request), and issues no
\* request after a successful page without continuation token.
C16_TerminatesWithinPageCap ==
    /\ [](Len(f_log) <= max_pages /\ LastPageEndsRun)
    /\ <>(f_pc = "returned")

\* Every request of a run of three pages was answered 429.
C16_Witness ==
    /\ f_pc = "returned"
    /\ max_pages = 3
    /\ Len(f_log) = 3
    /\ \A n \in DOMAIN f_log : f_log[n].kind = "http_429"

\* A run that stopped at a page without token before the cap.
C16_WitnessLastPage ==
    /\ f_pc = "returned"
    /\ max_pages = 3
    /\ Len(f_log) = 2
    /\ f_log[2].kind = "success"
    /\ ~Truthy(f_log[2].nextPage)

(***************************************************************************)
(* Claims about the merge                                                  *)
(***************************************************************************)
\* out has exactly one row per url of inp, each the first row of inp with
\* its url, in the order of inp.
FirstOccurrences(inp, out) ==
    /\ \A k \in DOMAIN inp :
          Cardinality({j \in DOMAIN out : out[j].url = inp[k].url}) = 1
    /\ \A j \in DOMAIN out :
          \E k \in DOMAIN inp :
             /\ inp[k] = out[j]
             /\ \A k2 \in 1..(k - 1) : inp[k2].url # out[j].url
    /\ \A j1, j2 \in DOMAIN out :
          j1 < j2 => \E k1, k2 \in DOMAIN inp :
                        k1 < k2 /\ inp[k1] = out[j1] /\ inp[k2] = out[j2]

\* C2: the merge step outputs exactly one row per distinct url of the
\* concatenated input, the first occurrence, in input order, in run_gdeltdoc
\* (before the cap) and in load_latest_parquet (the returned table).
C2_MergeKeepsFirstOccurrence ==
    /\ m_pc \in {"gdelt_done", "digest_done"}
          => FirstOccurrences(Flatten(dfs), deduped)
    /\ m_pc = "digest_done" => FirstOccurrences(Flatten(dfs), df)

\* A merge of two tables sharing a url, whose first table has two urls.
C2_Witness ==
    /\ m_pc = "digest_done"
    /\ Len(dfs) = 2
    /\ \E a \in DOMAIN dfs[1], b \in DOMAIN dfs[2] :
          dfs[1][a].url = dfs[2][b].url
    /\ Len(df) >= 2
    /\ Len(df) < Len(Flatten(dfs))

\* C3: run_gdeltdoc returns at most max_articles rows; when the deduplicated
\* table is larger, exactly the first max_articles rows of it.
C3_CapIsPrefixOfDeduped ==
    m_pc = "gdelt_done" =>
        /\ Len(combined) <= max_articles
        /\ Len(deduped) > max_articles =>
              /\ Len(combined) = max_articles
              /\ \A j \in 1..max_articles : combined[j] = deduped[j]

\* The cap cuts a deduplicated table that also lost a duplicate row.
C3_Witness ==
    /\ m_pc = "gdelt_done"
    /\ max_articles >= 1
    /\ Len(deduped) > max_articles
    /\ Len(Flatten(dfs)) > Len(deduped)
    /\ Len(combined) = max_articles

\* The urls of a table are non-empty and pairwise different.
UrlsNonEmptyAndUnique(rows) ==
    /\ \A k \in DOMAIN rows : rows[k].url # ""
    /\ \A j, k \in DOMAIN rows : j # k => rows[j].url # rows[k].url

\* C14: in the table of run_gdeltdoc, of normalize and of
\* load_latest_parquet every url is non-empty and no url occurs twice.
C14_UrlsNonEmptyAndUnique ==
    /\ m_pc = "gdelt_done" => UrlsNonEmptyAndUnique(combined)
    /\ m_pc = "digest_done" => UrlsNonEmptyAndUnique(df)
    /\ n_pc = "returned" => UrlsNonEmptyAndUnique(n_df.rows)

(***************************************************************************)
(* Claims about save_results                                               *)
(***************************************************************************)
\* C13: no call of save_results replaces the files of another call: every
\* run that has saved is still the writer of both its files.
C13_NeverOverwritten ==
    \A r \in DOMAIN s_stem :
        s_stem[r] # <<>> =>
            \A q \in PathsOf(s_stem[r]) :
                [path |-> q, writer |-> r] \in s_files

(***************************************************************************)
(* Claims about add_full_text                                              *)
(***************************************************************************)
\* C4: whatever the worker count and the completion order, the returned
\* full_text column holds at every position the result of the
\* fetch_full_text call made for the url at that position.
C4_FullTextAlignsWithUrls ==
    e_pc = "returned" =>
        /\ Len(full_text) = Len(urls)
        /\ \A k \in DOMAIN urls :
              \E f \in DOMAIN futures :
                 /\ futures[f].idx = k
                 /\ futures[f].url = urls[k]
                 /\ full_text[k] = futures[f].result
                 /\ full_text[k] \in {Nothing, Text(urls[k])}

\* Three rows whose tasks completed in another order than submitted, two of
\* them with text.
C4_Witness ==
    /\ e_pc = "returned"
    /\ Len(urls) = 3
    /\ completed[1] = 3
    /\ full_text[1] = Text(urls[1])
    /\ full_text[2] = Text(urls[2])
    /\ urls[1] # urls[2]

\* C12: a download that gives nothing or a fetch or extraction that raises
\* never stops add_full_text: it returns, with null for exactly the rows that
\* failed and the extractor's result for every other row.
C12_RowFailuresAreNull ==
    /\ e_pc # "raised"
    /\ e_pc = "returned" =>
          \A k \in DOMAIN urls :
             \E f \in DOMAIN futures :
                /\ futures[f].idx = k
                /\ futures[f].outcome \in FetchOutcomes
                /\ futures[f].outcome
                       \in {"download_none", "fetch_raises", "extract_raises"}
                     => full_text[k] = Nothing
                /\ futures[f].outcome = "extract_none"
                     => full_text[k] = Nothing
                /\ futures[f].outcome = "text"
                     => full_text[k] = Text(urls[k])

\* Three rows: one fetch raises, one extraction raises, one gives text.
C12_Witness ==
    /\ e_pc = "returned"
    /\ Len(urls) = 3
    /\ futures[1].outcome = "fetch_raises"
    /\ futures[2].outcome = "extract_raises"
    /\ futures[3].outcome = "text"
    /\ full_text[1] = Nothing
    /\ full_text[3] = Text(urls[3])

\* C15: every row's url is submitted once and fetched once, the tasks own
\* distinct slots, no slot is written twice, and at the return every slot
\* has been written exactly once.
C15_OneTaskOneSlot ==
    /\ \A f \in DOMAIN futures : futures[f].calls <= 1
    /\ \A f1, f2 \in DOMAIN futures :
          f1 # f2 => futures[f1].idx # futures[f2].idx
    /\ \A k \in DOMAIN writes : writes[k] <= 1
    /\ e_pc = "returned" =>
          /\ \A k \in DOMAIN urls :
                /\ Cardinality({f \in DOMAIN futures :
                                   futures[f].idx = k}) = 1
                /\ writes[k] = 1
          /\ \A f \in DOMAIN futures : futures[f].calls = 1

\* Three rows with the same url, one of them failed, all slots written.
C15_Witness ==
    /\ e_pc = "returned"
    /\ Len(urls) = 3
    /\ urls[1] = urls[2]
    /\ futures[1].outcome = "fetch_raises"
    /\ futures[1].calls = 1
    /\ \A k \in DOMAIN writes : writes[k] = 1

(***************************************************************************)
(* Claims about run_gdeltdoc                                               *)
(***************************************************************************)
\* C5: the non-ASCII keywords are removed and the n remaining ones are cut,
\* in order, into ceil(n/3) batches of 1 to 3 keywords, all but the last of
\* exactly 3, whose concatenation is the ASCII keyword list.
C5_KeywordBatching ==
    g_pc # "start" =>
        /\ ascii_keywords = SelectSeq(keywords, IsAscii)
        /\ Len(keyword_batches) = (Len(ascii_keywords) + 2) \div 3
        /\ \A b \in DOMAIN keyword_batches :
              /\ Len(keyword_batches[b]) \in 1..3
              /\ b < Len(keyword_batches) => Len(keyword_batches[b]) = 3
        /\ Flatten(keyword_batches) = ascii_keywords

\* Seven ASCII keywords and a non-ASCII one: batches of 3, 3 and 1.
C5_Witness ==
    /\ g_pc # "start"
    /\ Len(keywords) = 8
    /\ Len(ascii_keywords) = 7
    /\ Len(keyword_batches) = 3
    /\ Len(keyword_batches[1]) = 3
    /\ Len(keyword_batches[2]) = 3
    /\ Len(keyword_batches[3]) = 1

\* Number of configured languages that map to a country code.
ResolvedLanguages ==
    Cardinality({k \in DOMAIN languages :
                    languages[k] \in DOMAIN LANGUAGE_TO_COUNTRY})

RequestsOf(kind, outer, inner) ==
    {n \in DOMAIN g_requests :
        /\ g_requests[n].kwargs.kind = kind
        /\ g_requests[n].outer = outer
        /\ g_requests[n].inner = inner}

\* C6: whatever the requests return or raise, run_gdeltdoc issues
\* (keyword batches + themes) x max(1, resolved languages) requests: every
\* batch and every theme once per resolved country, or once without a
\* country filter when no language resolves.
C6_RequestCount ==
    g_pc = "returned" =>
        LET nc == Max(1, ResolvedLanguages)
        IN /\ Len(g_requests) = (Len(keyword_batches) + Len(themes)) * nc
           /\ \A b \in DOMAIN keyword_batches, c \in 1..nc :
                 Cardinality(RequestsOf("keyword", b, c)) = 1
           /\ \A t \in DOMAIN themes, c \in 1..nc :
                 Cardinality(RequestsOf("theme", t, c)) = 1
           /\ \A n \in DOMAIN g_requests :
                 ("country" \in DOMAIN g_requests[n].kwargs)
                     <=> ResolvedLanguages > 0

\* Two batches and a theme for two countries, with a failed request and no
\* table at all in the end.
C6_Witness ==
    /\ g_pc = "returned"
    /\ Len(keyword_batches) = 2
    /\ Len(themes) = 1
    /\ ResolvedLanguages = 2
    /\ Len(g_requests) = 6
    /\ Len(all_dfs) < 6

\* The fallback: no language resolves and every request goes out once.
C6_WitnessNoCountry ==
    /\ g_pc = "returned"
    /\ languages # <<>>
    /\ ResolvedLanguages = 0
    /\ Len(g_requests) = 2

\* C9: the table returned by run_gdeltdoc has every canonical column.
C9_AllCanonicalColumns ==
    g_pc = "returned" => CanonicalColumns \subseteq g_result.columns

\* The rows of the accumulated tables, the input of the merge.
AccumulatedRows ==
    UNION {{all_dfs[t].rows[r] : r \in DOMAIN all_dfs[t].rows} :
              t \in DOMAIN all_dfs}

\* Every request of the two loops was issued.
AllRequestsIssued ==
    Len(g_requests) =
        (Len(keyword_batches) + Len(themes)) * Len(country_filter_list)

\* C11 as stated: a failing request contributes no row and stops nothing:
\* every request is issued, the accumulated tables hold exactly the rows
\* that requests returned, and the returned table is non-empty whenever a
\* request returned rows.
C11_FailuresSkipped ==
    g_pc = "returned" =>
        /\ AllRequestsIssued
        /\ AccumulatedRows = g_rows
        /\ g_rows # {} => g_result.rows # <<>>

\* C11 as amended: the same, the returned table being non-empty whenever a
\* request returned rows and max_articles is at least 1.
C11_FailuresSkippedCapPositive ==
    g_pc = "returned" =>
        /\ AllRequestsIssued
        /\ AccumulatedRows = g_rows
        /\ (g_rows # {} /\ g_max_articles >= 1) => g_result.rows # <<>>

\* A run of several requests where one failed after another had returned
\* rows, and a later one returned rows again.
C11_Witness ==
    /\ g_pc = "returned"
    /\ g_failed
    /\ Len(g_requests) >= 3
    /\ Len(all_dfs) >= 2
    /\ Len(all_dfs) < Len(g_requests)
    /\ g_max_articles >= 1
    /\ g_result.rows # <<>>

(***************************************************************************)
(* Claims about normalize                                                  *)
(***************************************************************************)
\* The rows of the raw items whose link is non-empty, in input order.
LinkedRows == SelectSeq(RowsOf(raw), NonEmptyUrl)

\* C8 as stated: normalize returns exactly one row for each raw item whose
\* link is non-empty, in input order.
C8_OnlyEmptyUrlDropped ==
    n_pc = "returned" => n_df.rows = LinkedRows

\* C8 as amended: for a non-empty raw list normalize returns exactly one
\* row for each distinct non-empty link, the row of the first item with that
\* link, in input order.
C8_FirstRowPerLink ==
    (n_pc # "input" /\ raw # <<>>) =>
        /\ n_pc = "returned"
        /\ FirstOccurrences(LinkedRows, n_df.rows)

\* A raw list with a repeated link and an item without link.
C8_Witness ==
    /\ n_pc = "returned"
    /\ Len(raw) = 3
    /\ Len(LinkedRows) = 2
    /\ Len(n_df.rows) = 1

(***************************************************************************)
(* Claims about generate_digest                                            *)
(***************************************************************************)
DigestOver == d_pc \in {"returned", "raised"}

\* C10: one submit, at most 40 polls; results are read and text is returned
\* only after a poll reported "ended" and the first result for
\* "weekly-digest" is succeeded; TimeoutError exactly when 40 polls passed
\* without "ended"; every other ended job raises RuntimeError.
C10_DigestStateMachine ==
    /\ submits <= 1
    /\ attempt <= MaxPolls
    /\ results_read => processing_status = "ended"
    /\ d_pc = "polling" => attempt < MaxPolls /\ processing_status # "ended"
    /\ (d_pc = "returned") <=> (d_out.kind = "text")
    /\ d_out.kind = "text" =>
          /\ results_read
          /\ results[d_out.entry].custom_id = "weekly-digest"
          /\ results[d_out.entry].type = "succeeded"
          /\ \A n \in 1..(d_out.entry - 1) :
                results[n].custom_id # "weekly-digest"
    /\ DigestOver =>
          /\ (d_out.kind = "TimeoutError")
                <=> (attempt = MaxPolls /\ processing_status # "ended")
          /\ (processing_status = "ended" /\ d_out.kind # "text")
                => (d_pc = "raised" /\ d_out.kind = "RuntimeError")

\* The job ends on the 40th poll and its text is returned.
C10_Witness ==
    /\ d_pc = "returned"
    /\ attempt = MaxPolls
    /\ processing_status = "ended"
    /\ d_out.kind = "text"
    /\ d_out.entry = 2

====
